---- MODULE Spec2Model ----
(***************************************************************************)
(* Model of the tree-structure library: the Node / Leaf primitive          *)
(* (src/tree.py), the expression variants, the EvaluateExpression visitor  *)
(* and the PrintExpression visitor (src/expr_tree.py), and the PrintTree   *)
(* visitor (src/print_tree.py).                                            *)
(*                                                                         *)
(* The state is the heap of constructed elements plus the outcome of the   *)
(* last call made by the client.  Every constructor and every visitor      *)
(* entry point is one action.                                              *)
(*                                                                         *)
(* Numbers: a Python int or float is the record [t, n, d], the exact       *)
(* rational n/d (d > 0, lowest terms) tagged with its numeric kind.  The   *)
(* rounding of binary floating point is not modelled.  A string is the     *)
(* sequence of its characters; the box-drawing characters of TreeStyle are *)
(* written with one ASCII character each (see TreeStyle below).            *)
(***************************************************************************)
EXTENDS Integers, Sequences, FiniteSets, TLC

VARIABLES elems,   \* the heap: element id (1..Len) -> its fields
          op,      \* the last call made: the class or visitor called
          nargs,   \* the number of children handed to the last constructor
          arg,     \* the element handed to the last visitor call (0 = None)
          ret,     \* what the last call returned (NoRet when it raised)
          err,     \* the exception the last call raised, "none" otherwise
          style,   \* the NodeStyle of the last PrintTree call, "none" otherwise
          trace,   \* what the last evaluation did to the elements, in order
          before   \* the heap as it was when the last call was made

vars == <<elems, op, nargs, arg, ret, err, style, trace, before>>

-----------------------------------------------------------------------------
(* Bounds of the model *)

MaxElems == 4    \* elements on the heap in the tree specification
MaxArity == 3    \* children handed to one constructor call
MaxShared == 3   \* elements on the heap in the sharing specification

-----------------------------------------------------------------------------
(* Python numbers *)

Abs(x) == IF x < 0 THEN 0 - x ELSE x

RECURSIVE Gcd(_, _)
Gcd(a, b) == IF b = 0 THEN a ELSE Gcd(b, a % b)

\* the number n/d of kind t, d # 0, in lowest terms with a positive denominator
Num(t, n, d) ==
  LET g == Gcd(Abs(n), Abs(d))
      s == IF d < 0 THEN 0 - 1 ELSE 1
  IN  [t |-> t, n |-> (s * n) \div g, d |-> (s * d) \div g]

PyInt(n) == [t |-> "int", n |-> n, d |-> 1]
PyFloat(n, d) == Num("float", n, d)

None == [t |-> "None", n |-> 0, d |-> 1]

\* what a call hands back: a number (evaluate), a string (the printers), or
\* nothing (a constructor, or a call that raised)
NoRet == [num |-> None, str |-> <<>>]
RetNum(v) == [num |-> v, str |-> <<>>]
RetStr(s) == [num |-> None, str |-> s]

\* the kind of the result of a binary arithmetic operation on a and b
Wider(a, b) == IF a.t = "float" \/ b.t = "float" THEN "float" ELSE "int"

\* floor of the rational n/d, d # 0
Floor(n, d) == IF d > 0 THEN n \div d ELSE (0 - n) \div (0 - d)

\* a + b
PyAdd(a, b) == Num(Wider(a, b), a.n * b.d + b.n * a.d, a.d * b.d)
\* a - b
PySub(a, b) == Num(Wider(a, b), a.n * b.d - b.n * a.d, a.d * b.d)
\* a * b
PyMul(a, b) == Num(Wider(a, b), a.n * b.n, a.d * b.d)
\* a / b, b # 0: always a float
PyTrueDiv(a, b) == Num("float", a.n * b.d, a.d * b.n)
\* variant of PyFloorDiv that rounds the quotient towards zero
PyFloorDiv_truncating(a, b) ==
  LET n == a.n * b.d
      d == a.d * b.n
      q == Abs(n) \div Abs(d)
  IN  Num(Wider(a, b), IF (n < 0) = (d < 0) THEN q ELSE 0 - q, 1)

\* a // b, b # 0: the floor of the quotient, an int only when both are ints
PyFloorDiv(a, b) == Num(Wider(a, b), Floor(a.n * b.d, a.d * b.n), 1)
\* int(v): truncation towards zero
PyIntOf(v) == PyInt(IF v.n >= 0 THEN v.n \div v.d ELSE 0 - ((0 - v.n) \div v.d))
\* float(v)
PyFloatOf(v) == [v EXCEPT !.t = "float"]

-----------------------------------------------------------------------------
(* Python strings: sequences of characters *)

Digit(k) == <<"0", "1", "2", "3", "4", "5", "6", "7", "8", "9">>[k + 1]

RECURSIVE NatStr(_)
NatStr(k) == IF k < 10 THEN <<Digit(k)>> ELSE NatStr(k \div 10) \o <<Digit(k % 10)>>

\* str() of an int
IntStr(v) == IF v.n < 0 THEN <<"-">> \o NatStr(0 - v.n) ELSE NatStr(v.n)

\* str() of a float with at most one decimal place (the repr is exact there)
FloatStr(v) ==
  LET a == Abs(v.n)
      whole == a \div v.d
      tenth == ((a % v.d) * 10) \div v.d
  IN  (IF v.n < 0 THEN <<"-">> ELSE <<>>) \o NatStr(whole) \o <<".", Digit(tenth)>>

PyStr(v) == IF v.t = "int" THEN IntStr(v) ELSE FloatStr(v)

-----------------------------------------------------------------------------
(* The heap of elements and the class hierarchy *)

Ids(h) == 1..Len(h)

ExpressionLeafKinds == {"Integer", "Float"}
ExpressionNodeKinds == {"Add", "Multiply", "Divide", "Negative"}
NodeKinds == ExpressionNodeKinds \cup {"Node"}

\* isinstance(h[e], ExpressionLeaf)
IsExpressionLeaf(h, e) == h[e].kind \in ExpressionLeafKinds
\* isinstance(h[e], ExpressionNode)
IsExpressionNode(h, e) == h[e].kind \in ExpressionNodeKinds
\* isinstance(h[e], (ExpressionNode, ExpressionLeaf))
IsExpression(h, e) == IsExpressionLeaf(h, e) \/ IsExpressionNode(h, e)

\* the outcome of a constructor call: the heap after it, the exception raised
\* and the id of the object made (0 when the call raised)
Made(h, id) == [h |-> h, err |-> "none", id |-> id]
Raised(h, e) == [h |-> h, err |-> e, id |-> 0]

\* the ids of a sequence of children, as a set
Range(s) == {s[i] : i \in 1..Len(s)}

\* variant of NodeInit that accepts an empty children list
NodeInit_accepting_none(h, kind, name, children) ==
  LET self == Len(h) + 1
      obj == [kind |-> kind, name |-> name, children |-> children,
              parent |-> 0, result |-> None]
      h1 == Append(h, obj)
  IN  Made([e \in 1..self |->
              IF e \in Range(children) THEN [h1[e] EXCEPT !.parent = self]
              ELSE h1[e]], self)

\* Node.__init__ (reached through super().__init__ by every node class):
\* no children is a TypeError; otherwise the object is made with parent None
\* and every child's parent is overwritten with the new object
NodeInit(h, kind, name, children) ==
  IF children = <<>> THEN Raised(h, "TypeError")
  ELSE LET self == Len(h) + 1
           obj == [kind |-> kind, name |-> name, children |-> children,
                   parent |-> 0, result |-> None]
           h1 == Append(h, obj)
       IN  Made([e \in 1..self |->
                   IF e \in Range(children) THEN [h1[e] EXCEPT !.parent = self]
                   ELSE h1[e]], self)

\* the name each expression class hands to its base class
ClassName(kind) ==
  CASE kind = "Add"      -> <<"A", "d", "d">>
    [] kind = "Multiply" -> <<"M", "u", "l", "t", "i", "p", "l", "y">>
    [] kind = "Divide"   -> <<"D", "i", "v", "i", "d", "e">>
    [] kind = "Negative" -> <<"N", "e", "g", "a", "t", "i", "v", "e">>
    [] kind = "Integer"  -> <<"I", "n", "t", "e", "g", "e", "r">>
    [] kind = "Float"    -> <<"F", "l", "o", "a", "t">>

\* ExpressionNode.__init__: result = None, then Node.__init__
ExpressionNodeInit(h, kind, children) == NodeInit(h, kind, ClassName(kind), children)

\* Add.__init__ and Multiply.__init__
AddInit(h, children) == ExpressionNodeInit(h, "Add", children)
MultiplyInit(h, children) == ExpressionNodeInit(h, "Multiply", children)

\* variant of DivideInit that refuses only more than two children
DivideInit_at_most_two(h, children) ==
  IF Len(children) > 2 THEN Raised(h, "TypeError")
  ELSE NodeInit(h, "Divide", ClassName("Divide"), children)

\* Divide.__init__: exactly two children
DivideInit(h, children) ==
  IF Len(children) # 2 THEN Raised(h, "TypeError")
  ELSE ExpressionNodeInit(h, "Divide", children)

\* Negative.__init__: more than one child is refused here, none by Node.__init__
NegativeInit(h, children) ==
  IF Len(children) > 1 THEN Raised(h, "TypeError")
  ELSE ExpressionNodeInit(h, "Negative", children)

\* Leaf.__init__ (and ExpressionLeaf.__init__, which stores the value first)
LeafInit(h, kind, name, value) ==
  Made(Append(h, [kind |-> kind, name |-> name, children |-> <<>>,
                  parent |-> 0, result |-> value]), Len(h) + 1)

\* Integer.__init__: int(value)
IntegerInit(h, value) == LeafInit(h, "Integer", ClassName("Integer"), PyIntOf(value))
\* Float.__init__: float(value)
FloatInit(h, value) == LeafInit(h, "Float", ClassName("Float"), PyFloatOf(value))

-----------------------------------------------------------------------------
(* EvaluateExpression: every operator returns the heap after the call,     *)
(* the exception that ended it ("none" when it returned) and the trace of  *)
(* what it did: the accept calls and the assignments to result, in order   *)

\* tree_element.accept(self) was called on e
Accepted(e) == [ev |-> "accept", e |-> e]
\* tree_element.result was assigned on e
Assigned(e) == [ev |-> "result", e |-> e]

Done(h) == [h |-> h, err |-> "none", trace |-> <<>>]
Fail(h, e) == [h |-> h, err |-> e, trace |-> <<>>]

\* tree_element.result = v
Assign(h, e, v) ==
  [h |-> [h EXCEPT ![e].result = v], err |-> "none", trace |-> <<Assigned(e)>>]

\* the outcome r of a step that came after the steps of trace t
After(t, r) == [r EXCEPT !.trace = t \o @]

\* variant of Eval_visitNegative that subtracts the child's result once too few
Eval_visitNegative_keeping_sign(h, e) ==
  LET child == h[e].children[1]
  IN  Assign(h, e, PySub(PyMul(PyInt(2), h[child].result), h[child].result))

\* EvaluateExpression.visitNegative
Eval_visitNegative(h, e) ==
  IF h[e].children = <<>> THEN Fail(h, "IndexError")
  ELSE LET child == h[e].children[1]
       IN  IF ~IsExpression(h, child) THEN Fail(h, "TypeError")
           ELSE IF h[child].result = None THEN Fail(h, "ValueError")
           ELSE Assign(h, e, PySub(h[child].result, PyMul(PyInt(2), h[child].result)))

\* the loop of visitAdd from child i on, with the running sum
RECURSIVE Eval_visitAdd_loop(_, _, _, _)
Eval_visitAdd_loop(h, e, i, addition) ==
  IF i > Len(h[e].children) THEN Assign(h, e, addition)
  ELSE LET child == h[e].children[i]
       IN  IF ~IsExpression(h, child) THEN Fail(h, "TypeError")
           ELSE IF h[child].result = None THEN Fail(h, "ValueError")
           ELSE Eval_visitAdd_loop(h, e, i + 1, PyAdd(addition, h[child].result))

\* variant of Eval_visitAdd that adds the children to the result the node has
Eval_visitAdd_onto_result(h, e) ==
  Eval_visitAdd_loop(h, e, 1,
                     IF h[e].result = None THEN PyInt(0) ELSE h[e].result)

\* EvaluateExpression.visitAdd
Eval_visitAdd(h, e) == Eval_visitAdd_loop(h, e, 1, PyInt(0))

\* the loop of visitMultiply from child i on, with the running product
RECURSIVE Eval_visitMultiply_loop(_, _, _, _)
Eval_visitMultiply_loop(h, e, i, multiplication) ==
  IF i > Len(h[e].children) THEN Assign(h, e, multiplication)
  ELSE LET child == h[e].children[i]
       IN  IF ~IsExpression(h, child) THEN Fail(h, "TypeError")
           ELSE IF h[child].result = None THEN Fail(h, "ValueError")
           ELSE Eval_visitMultiply_loop(h, e, i + 1,
                                        PyMul(multiplication, h[child].result))

\* variant of Eval_visitMultiply that starts the product from 0, as visitAdd
\* starts its sum
Eval_visitMultiply_from_zero(h, e) == Eval_visitMultiply_loop(h, e, 1, PyInt(0))

\* EvaluateExpression.visitMultiply
Eval_visitMultiply(h, e) == Eval_visitMultiply_loop(h, e, 1, PyInt(1))

\* variant of Eval_float_division that looks at the operands' values, not at
\* their classes
Eval_float_division_by_value(h, divident, divisor) ==
  h[divident].result.t = "float" \/ h[divisor].result.t = "float"

\* the test of visitDivide that selects true division
Eval_float_division(h, divident, divisor) ==
  h[divident].kind = "Float" \/ h[divisor].kind = "Float"

\* variant of Eval_visitDivide that divides the result the node has, when it
\* has one, instead of the dividend
Eval_visitDivide_of_result(h, e) ==
  LET divisor == h[e].children[2]
      divident == IF h[e].result = None THEN h[h[e].children[1]].result
                  ELSE h[e].result
  IN  IF h[divisor].result.n = 0 THEN Fail(h, "ZeroDivisionError")
      ELSE Assign(h, e, PyFloorDiv(divident, h[divisor].result))

\* EvaluateExpression.visitDivide
Eval_visitDivide(h, e) ==
  IF Len(h[e].children) < 2 THEN Fail(h, "IndexError")
  ELSE LET divident == h[e].children[1]
           divisor == h[e].children[2]
       IN  IF ~IsExpression(h, divident) \/ ~IsExpression(h, divisor)
             THEN Fail(h, "TypeError")
           ELSE IF h[divident].result = None \/ h[divisor].result = None
             THEN Fail(h, "ValueError")
           ELSE IF h[divisor].result.n = 0 THEN Fail(h, "ZeroDivisionError")
           ELSE IF Eval_float_division(h, divident, divisor)
             THEN Assign(h, e, PyTrueDiv(h[divident].result, h[divisor].result))
           ELSE Assign(h, e, PyFloorDiv(h[divident].result, h[divisor].result))

\* tree_element.accept(self) for the evaluator: visitInteger, visitFloat and
\* visit do nothing
Eval_accept(h, e) ==
  After(<<Accepted(e)>>,
        CASE h[e].kind = "Negative" -> Eval_visitNegative(h, e)
          [] h[e].kind = "Add"      -> Eval_visitAdd(h, e)
          [] h[e].kind = "Multiply" -> Eval_visitMultiply(h, e)
          [] h[e].kind = "Divide"   -> Eval_visitDivide(h, e)
          [] OTHER                  -> Done(h))

RECURSIVE Eval_evaluate(_, _)
RECURSIVE Eval_evaluate_node_loop(_, _, _)

\* variant of Eval_evaluate_leaf that stores the whole part of the value in
\* the leaf
Eval_evaluate_leaf_rounding(h, e) == Assign(h, e, PyIntOf(h[e].result))

\* EvaluateExpression._evaluate_leaf
Eval_evaluate_leaf(h, e) == Eval_accept(h, e)

\* variant of Eval_evaluate_node_loop that evaluates the first child only
Eval_evaluate_node_loop_first_child_only(h, e, i) ==
  IF i > 1 THEN Eval_accept(h, e)
  ELSE LET r == Eval_evaluate(h, h[e].children[i])
       IN  IF r.err # "none" THEN r
           ELSE After(r.trace, Eval_evaluate_node_loop(r.h, e, i + 1))

\* the loop of _evaluate_node from child i on, then the node's own accept
Eval_evaluate_node_loop(h, e, i) ==
  IF i > Len(h[e].children) THEN Eval_accept(h, e)
  ELSE LET r == Eval_evaluate(h, h[e].children[i])
       IN  IF r.err # "none" THEN r
           ELSE After(r.trace, Eval_evaluate_node_loop(r.h, e, i + 1))

\* variant of Eval_evaluate_node that runs the rule of the node before it
\* evaluates the first child
Eval_evaluate_node_rule_first(h, e) ==
  LET r == Eval_accept(h, e)
  IN  IF r.err # "none" THEN r
      ELSE After(r.trace, Eval_evaluate(r.h, h[e].children[1]))

\* EvaluateExpression._evaluate_node
Eval_evaluate_node(h, e) == Eval_evaluate_node_loop(h, e, 1)

\* variant of Eval_evaluate that sets the result of a node to 0 before it
\* evaluates the node
Eval_evaluate_presetting(h, e) ==
  IF IsExpressionLeaf(h, e) THEN Eval_evaluate_leaf(h, e)
  ELSE IF IsExpressionNode(h, e)
    THEN Eval_evaluate_node([h EXCEPT ![e].result = PyInt(0)], e)
  ELSE Fail(h, "TypeError")

\* EvaluateExpression._evaluate
Eval_evaluate(h, e) ==
  IF IsExpressionLeaf(h, e) THEN Eval_evaluate_leaf(h, e)
  ELSE IF IsExpressionNode(h, e) THEN Eval_evaluate_node(h, e)
  ELSE Fail(h, "TypeError")

\* EvaluateExpression.traverse: the heap after the call, the exception, the
\* value returned and the trace
Eval_traverse(h, e) ==
  IF e = 0 THEN [h |-> h, err |-> "TypeError", ret |-> NoRet, trace |-> <<>>]
  ELSE IF IsExpression(h, e)
    THEN LET r == Eval_evaluate(h, e)
         IN  IF r.err # "none"
               THEN [h |-> r.h, err |-> r.err, ret |-> NoRet, trace |-> r.trace]
             ELSE IF r.h[e].result = None
               THEN [h |-> r.h, err |-> "ValueError", ret |-> NoRet,
                     trace |-> r.trace]
             ELSE [h |-> r.h, err |-> "none", ret |-> RetNum(r.h[e].result),
                   trace |-> r.trace]
  ELSE [h |-> h, err |-> "TypeError", ret |-> NoRet, trace |-> <<>>]

-----------------------------------------------------------------------------
(* PrintExpression: every operator returns the string built and the        *)
(* exception that ended the call ("none" when it returned)                 *)

SYMBOL_DIVISION == <<" ", "/", " ">>
SYMBOL_MULTIPLY == <<" ", "*", " ">>
SYMBOL_NEGATIVE == <<"-">>
SYMBOL_ADD == <<" ", "+", " ">>

Text(s) == [s |-> s, err |-> "none"]
NoText(e) == [s |-> <<>>, err |-> e]

\* tree_element.accept(self) for the printer: every visitX returns
\* str(tree_element); visit (a plain Node or Leaf) returns None, which the
\* caller cannot concatenate
Print_accept(h, e) ==
  CASE h[e].kind = "Add"      -> Text(SYMBOL_ADD)
    [] h[e].kind = "Multiply" -> Text(SYMBOL_MULTIPLY)
    [] h[e].kind = "Divide"   -> Text(SYMBOL_DIVISION)
    [] h[e].kind = "Negative" -> Text(SYMBOL_NEGATIVE)
    [] h[e].kind \in ExpressionLeafKinds -> Text(PyStr(h[e].result))
    [] OTHER                  -> NoText("TypeError")

\* PrintExpression._handle_leaf
Print_handle_leaf(h, e) == Print_accept(h, e)

\* the opening parenthesis of _handle_node
Print_prefix(h, e) ==
  LET has_only_one_child == Len(h[e].children) = 1
  IN  IF h[e].parent = 0 \/ has_only_one_child THEN <<>> ELSE <<"(">>

\* the closing parenthesis of _handle_node_children after child i of e
Print_sufix(h, e, is_last, i) ==
  LET has_only_one_child == Len(h[e].children) = 1
      is_last_child == i = Len(h[e].children)
  IN  IF is_last /\ (is_last_child \/ has_only_one_child) THEN <<")">> ELSE <<>>

RECURSIVE Print_print_logic(_, _, _)
RECURSIVE Print_handle_node_children_loop(_, _, _, _)

\* the loop of _handle_node_children from child i on
Print_handle_node_children_loop(h, e, is_last, i) ==
  IF i > Len(h[e].children) THEN Text(<<>>)
  ELSE LET is_last_child == i = Len(h[e].children)
           r == Print_print_logic(h, h[e].children[i], is_last_child)
       IN  IF r.err # "none" THEN r
           ELSE LET rest == Print_handle_node_children_loop(h, e, is_last, i + 1)
                IN  IF rest.err # "none" THEN rest
                    ELSE Text(r.s \o Print_sufix(h, e, is_last, i) \o rest.s)

\* PrintExpression._handle_node_children
Print_handle_node_children(h, e, is_last) ==
  Print_handle_node_children_loop(h, e, is_last, 1)

\* PrintExpression._handle_node
Print_handle_node(h, e, is_last) ==
  LET lines == Print_handle_node_children(h, e, is_last)
  IN  IF lines.err # "none" THEN lines
      ELSE Text(Print_prefix(h, e) \o lines.s)

\* the operator token _print_logic puts before the element
Print_operator(h, e, is_last) ==
  IF ~is_last THEN Text(<<>>)
  ELSE IF h[e].parent = 0 THEN NoText("AttributeError")
  ELSE Print_accept(h, h[e].parent)

\* PrintExpression._print_logic
Print_print_logic(h, e, is_last) ==
  LET lines == Print_operator(h, e, is_last)
  IN  IF lines.err # "none" THEN lines
      ELSE IF IsExpressionLeaf(h, e)
        THEN Text(lines.s \o Print_handle_leaf(h, e).s)
      ELSE IF IsExpressionNode(h, e)
        THEN LET r == Print_handle_node(h, e, is_last)
             IN  IF r.err # "none" THEN r ELSE Text(lines.s \o r.s)
      ELSE NoText("TypeError")

\* PrintExpression.traverse
Print_traverse(h, e) ==
  IF e = 0 THEN NoText("TypeError") ELSE Print_print_logic(h, e, FALSE)

-----------------------------------------------------------------------------
(* PrintTree: every operator returns the string built and the exception    *)
(* that ended the call ("none" when it returned)                           *)

\* NodeStyle
INDENT == "INDENT"
BULLET == "BULLET"
TREE == "TREE"
NodeStyle == {INDENT, BULLET, TREE}

\* TreeStyle.  The box-drawing characters are written in ASCII:
\*   U+2500 "-"   U+257C ">"   U+257F "!"   U+2514 "%"
\*   U+252E "#"   U+251C "+"   U+2502 "|"
PREFIX_ROOT_LONLEY == <<"-", ">", " ">>
PREFIX_ROOT == <<" ", "!", " ">>
PREFIX_LAST_SIBILING_W_CHILD == <<" ", "%", "-", "#", " ">>
PREFIX_LAST_SIBLING_NO_CHILDREN == <<" ", "%", "-", ">", " ">>
PREFIX_MIDDLE_SIBLING_NO_CHILDREN == <<" ", "+", "-", ">", " ">>
PREFIX_MIDDLE_SIBLING_W_CHILD == <<" ", "+", "-", "#", " ">>
PREFIX_VERTICAL_CONTINUATION == <<" ", "|">>

\* isinstance(h[e], Leaf) and isinstance(h[e], Node)
IsLeaf(h, e) == h[e].kind \in ExpressionLeafKinds \cup {"Leaf"}
IsNode(h, e) == h[e].kind \in NodeKinds

\* tree_element.accept(self) for PrintTree: visitInteger and visitFloat return
\* name(value), every other visitX and visit return the name
PrintTree_accept(h, e) ==
  IF h[e].kind \in ExpressionLeafKinds
    THEN Text(h[e].name \o <<"(">> \o PyStr(h[e].result) \o <<")">>)
  ELSE Text(h[e].name)

\* variant of PrintTree_handle_leaf_logic_tree that draws every leaf below the
\* root as a last sibling
PrintTree_handle_leaf_logic_tree_always_last(h, e, prefix, is_last) ==
  LET leaf_name == PrintTree_accept(h, e)
      connector == IF h[e].parent = 0 THEN PREFIX_ROOT_LONLEY
                   ELSE PREFIX_LAST_SIBLING_NO_CHILDREN
  IN  Text(prefix \o connector \o leaf_name.s)

\* PrintTree._handle_leaf_logic_tree
PrintTree_handle_leaf_logic_tree(h, e, prefix, is_last) ==
  LET leaf_name == PrintTree_accept(h, e)
      connector == IF h[e].parent = 0 THEN PREFIX_ROOT_LONLEY
                   ELSE IF is_last THEN PREFIX_LAST_SIBLING_NO_CHILDREN
                   ELSE PREFIX_MIDDLE_SIBLING_NO_CHILDREN
  IN  IF leaf_name.err # "none" THEN leaf_name
      ELSE Text(prefix \o connector \o leaf_name.s)

\* PrintTree._handle_parent_node
PrintTree_handle_parent_node(h, e, prefix, is_last) ==
  LET leaf_name == PrintTree_accept(h, e)
      connector == IF h[e].parent = 0 THEN PREFIX_ROOT
                   ELSE IF is_last THEN PREFIX_LAST_SIBILING_W_CHILD
                   ELSE PREFIX_MIDDLE_SIBLING_W_CHILD
  IN  IF leaf_name.err # "none" THEN leaf_name
      ELSE Text(prefix \o connector \o leaf_name.s)

RECURSIVE PrintTree_print_logic_tree(_, _, _, _)
RECURSIVE PrintTree_handle_node_children_loop(_, _, _, _, _)

\* variant of PrintTree_handle_node_children_loop whose extension goes by the
\* place of the child among its siblings, not by the place of the node
PrintTree_handle_node_children_loop_by_child(h, e, prefix, is_last, i) ==
  IF i > Len(h[e].children) THEN Text(<<>>)
  ELSE LET is_last_child == i = Len(h[e].children)
           extension == IF h[e].parent = 0 THEN <<>>
                        ELSE IF is_last_child THEN <<" ", " ">>
                        ELSE PREFIX_VERTICAL_CONTINUATION
           r == PrintTree_print_logic_tree(h, h[e].children[i],
                                           prefix \o extension, is_last_child)
           rest == PrintTree_handle_node_children_loop(h, e, prefix,
                                                       is_last, i + 1)
       IN  Text(<<"\n">> \o r.s \o rest.s)

\* the loop of PrintTree._handle_node_children from child i on
PrintTree_handle_node_children_loop(h, e, prefix, is_last, i) ==
  IF i > Len(h[e].children) THEN Text(<<>>)
  ELSE LET is_last_child == i = Len(h[e].children)
           extension == IF h[e].parent = 0 THEN <<>>
                        ELSE IF is_last THEN <<" ", " ">>
                        ELSE PREFIX_VERTICAL_CONTINUATION
           r == PrintTree_print_logic_tree(h, h[e].children[i],
                                           prefix \o extension, is_last_child)
       IN  IF r.err # "none" THEN r
           ELSE LET rest == PrintTree_handle_node_children_loop(h, e, prefix,
                                                                is_last, i + 1)
                IN  IF rest.err # "none" THEN rest
                    ELSE Text(<<"\n">> \o r.s \o rest.s)

\* PrintTree._handle_node_children
PrintTree_handle_node_children(h, e, prefix, is_last) ==
  PrintTree_handle_node_children_loop(h, e, prefix, is_last, 1)

\* PrintTree._handle_node_logic_tree
PrintTree_handle_node_logic_tree(h, e, prefix, is_last) ==
  LET lines == PrintTree_handle_parent_node(h, e, prefix, is_last)
  IN  IF lines.err # "none" THEN lines
      ELSE LET children == PrintTree_handle_node_children(h, e, prefix, is_last)
           IN  IF children.err # "none" THEN children
               ELSE Text(lines.s \o children.s)

\* PrintTree._print_logic_tree
PrintTree_print_logic_tree(h, e, prefix, is_last) ==
  IF IsLeaf(h, e) THEN PrintTree_handle_leaf_logic_tree(h, e, prefix, is_last)
  ELSE IF IsNode(h, e) THEN PrintTree_handle_node_logic_tree(h, e, prefix, is_last)
  ELSE NoText("TypeError")

\* '  ' * level
RECURSIVE Spaces(_)
Spaces(level) == IF level = 0 THEN <<>> ELSE <<" ", " ">> \o Spaces(level - 1)

RECURSIVE PrintTree_print_logic_prefix(_, _, _, _)
RECURSIVE PrintTree_print_logic_prefix_loop(_, _, _, _, _)

\* the loop of PrintTree._print_logic_prefix from child i on
PrintTree_print_logic_prefix_loop(h, e, level, prefix, i) ==
  IF i > Len(h[e].children) THEN Text(<<>>)
  ELSE LET r == PrintTree_print_logic_prefix(h, h[e].children[i], level + 1, prefix)
       IN  IF r.err # "none" THEN r
           ELSE LET rest == PrintTree_print_logic_prefix_loop(h, e, level, prefix,
                                                              i + 1)
                IN  IF rest.err # "none" THEN rest
                    ELSE Text(<<"\n">> \o r.s \o rest.s)

\* variant of PrintTree_print_logic_prefix that indents every child by one
\* level
PrintTree_print_logic_prefix_one_level(h, e, level, prefix) ==
  LET name == PrintTree_accept(h, e)
      result == Spaces(IF level > 1 THEN 1 ELSE level) \o prefix \o name.s
      r == PrintTree_print_logic_prefix_loop(h, e, level, prefix, 1)
  IN  IF IsNode(h, e) THEN Text(result \o r.s) ELSE Text(result)

\* PrintTree._print_logic_prefix
PrintTree_print_logic_prefix(h, e, level, prefix) ==
  LET name == PrintTree_accept(h, e)
  IN  IF name.err # "none" THEN name
      ELSE LET result == Spaces(level) \o prefix \o name.s
           IN  IF IsNode(h, e)
                 THEN LET r == PrintTree_print_logic_prefix_loop(h, e, level,
                                                                 prefix, 1)
                      IN  IF r.err # "none" THEN r ELSE Text(result \o r.s)
               ELSE Text(result)

\* PrintTree(style).traverse
PrintTree_traverse(h, e, s) ==
  IF e = 0 THEN NoText("TypeError")
  ELSE IF s = TREE THEN PrintTree_print_logic_tree(h, e, <<>>, TRUE)
  ELSE IF s = INDENT THEN PrintTree_print_logic_prefix(h, e, 0, <<>>)
  ELSE PrintTree_print_logic_prefix(h, e, 0, <<"*", " ">>)

-----------------------------------------------------------------------------
(* The client: what it constructs and what it calls *)

\* the numbers handed to Integer(...) and to Float(...)
IntegerInputs == {PyInt(0), PyFloat(5, 2)}
FloatInputs == {PyFloat(5, 2)}
\* the names handed to Node(...) and Leaf(...)
NodeNames == {<<"N">>}
LeafNames == {<<"L">>}

\* the sequences over S of length 0..n
SeqsUpTo(S, n) == UNION {[1..k -> S] : k \in 0..n}

\* the elements without a parent
Roots(h) == {e \in Ids(h) : h[e].parent = 0}

\* the elements without a parent, in the order they were made
RECURSIVE RootSeq(_, _)
RootSeq(h, e) ==
  IF e > Len(h) THEN <<>>
  ELSE (IF h[e].parent = 0 THEN <<e>> ELSE <<>>) \o RootSeq(h, e + 1)

\* children lists of a nested constructor expression such as
\* Add(Integer(2), Negative(Integer(3))): Python evaluates the arguments left
\* to right just before the call, so the children are the last k elements
\* made that no node owns yet.  Every ordered tree is built this way.
TreeArgs(h) ==
  LET roots == RootSeq(h, 1)
      n == Len(roots)
  IN  {SubSeq(roots, n - k + 1, n) : k \in 0..(IF n < MaxArity THEN n ELSE MaxArity)}

\* any children list, an element possibly owned already or handed twice
AnyArgs(h) == SeqsUpTo(Ids(h), MaxArity)

\* the expressions of the docstring of EvaluateExpression, built in its order
Examples ==
  LET I(h, n) == IntegerInit(h, PyInt(n)).h
      F(h, n) == FloatInit(h, PyInt(n)).h
      h1 == I(<<>>, 42)                                  \* 1
      h2 == NegativeInit(I(h1, 23), <<3 - 1>>).h         \* 2, 3
      h3 == DivideInit(I(I(h2, 5), 2), <<4, 5>>).h       \* 4, 5, 6
      h4 == DivideInit(I(F(h3, 5), 2), <<7, 8>>).h       \* 7, 8, 9
      h5 == NegativeInit(I(F(I(h4, 2), 5), 3), <<12>>).h \* 10, 11, 12, 13
      h6 == MultiplyInit(h5, <<11, 13>>).h               \* 14
      h7 == DivideInit(F(h6, 10), <<14, 15>>).h          \* 15, 16
  IN  AddInit(h7, <<10, 16>>).h                          \* 17

Init ==
  /\ elems \in {<<>>, Examples}
  /\ op = "init"
  /\ nargs = 0
  /\ arg = 0
  /\ ret = NoRet
  /\ err = "none"
  /\ style = "none"
  /\ trace = <<>>
  /\ before = elems

\* a constructor call with outcome r
Construct(class, n, r) ==
  /\ elems' = r.h
  /\ op' = class
  /\ nargs' = n
  /\ arg' = r.id
  /\ ret' = NoRet
  /\ err' = r.err
  /\ style' = "none"
  /\ trace' = <<>>
  /\ before' = elems

\* the client builds its trees first and calls the visitors afterwards
Visited == op \in {"EvaluateExpression", "PrintExpression", "PrintTree"}

NewLeaf(bound) ==
  /\ Len(elems) < bound /\ ~Visited
  /\ \E name \in LeafNames :
       Construct("Leaf", 0, LeafInit(elems, "Leaf", name, None))

NewInteger(bound) ==
  /\ Len(elems) < bound /\ ~Visited
  /\ \E v \in IntegerInputs : Construct("Integer", 0, IntegerInit(elems, v))

NewFloat(bound) ==
  /\ Len(elems) < bound /\ ~Visited
  /\ \E v \in FloatInputs : Construct("Float", 0, FloatInit(elems, v))

NewNode(bound, Args) ==
  /\ Len(elems) < bound /\ ~Visited
  /\ \E name \in NodeNames, cs \in Args :
       Construct("Node", Len(cs), NodeInit(elems, "Node", name, cs))

NewAdd(bound, Args) ==
  /\ Len(elems) < bound /\ ~Visited
  /\ \E cs \in Args : Construct("Add", Len(cs), AddInit(elems, cs))

NewMultiply(bound, Args) ==
  /\ Len(elems) < bound /\ ~Visited
  /\ \E cs \in Args : Construct("Multiply", Len(cs), MultiplyInit(elems, cs))

NewDivide(bound, Args) ==
  /\ Len(elems) < bound /\ ~Visited
  /\ \E cs \in Args : Construct("Divide", Len(cs), DivideInit(elems, cs))

NewNegative(bound, Args) ==
  /\ Len(elems) < bound /\ ~Visited
  /\ \E cs \in Args : Construct("Negative", Len(cs), NegativeInit(elems, cs))

\* what the client hands to a visitor: None, or the root of a tree it built
Handed(h) == {0} \cup Roots(h)

\* the client evaluates as often as it likes and prints last
Shown == op \in {"PrintExpression", "PrintTree"}

\* EvaluateExpression().traverse(e)
Evaluate ==
  \E e \in Handed(elems) :
    LET r == Eval_traverse(elems, e)
    IN  /\ ~Shown
        /\ elems' = r.h
        /\ op' = "EvaluateExpression"
        /\ nargs' = 0
        /\ arg' = e
        /\ ret' = r.ret
        /\ err' = r.err
        /\ style' = "none"
        /\ trace' = r.trace
        /\ before' = elems

\* PrintExpression().traverse(e)
PrintExpr ==
  \E e \in Handed(elems) :
    LET r == Print_traverse(elems, e)
    IN  /\ ~Shown
        /\ op' = "PrintExpression"
        /\ nargs' = 0
        /\ arg' = e
        /\ ret' = IF r.err = "none" THEN RetStr(r.s) ELSE NoRet
        /\ err' = r.err
        /\ style' = "none"
        /\ trace' = <<>>
        /\ before' = elems
        /\ UNCHANGED elems

\* PrintTree(s).traverse(e)
PrintTreeCall ==
  \E e \in Handed(elems), s \in NodeStyle :
    LET r == PrintTree_traverse(elems, e, s)
    IN  /\ ~Shown
        /\ op' = "PrintTree"
        /\ nargs' = 0
        /\ arg' = e
        /\ ret' = IF r.err = "none" THEN RetStr(r.s) ELSE NoRet
        /\ err' = r.err
        /\ style' = s
        /\ trace' = <<>>
        /\ before' = elems
        /\ UNCHANGED elems

\* trees built bottom-up, then evaluated and printed
Next ==
  \/ NewLeaf(MaxElems)
  \/ NewInteger(MaxElems)
  \/ NewFloat(MaxElems)
  \/ NewNode(MaxElems, TreeArgs(elems))
  \/ NewAdd(MaxElems, TreeArgs(elems))
  \/ NewMultiply(MaxElems, TreeArgs(elems))
  \/ NewDivide(MaxElems, TreeArgs(elems))
  \/ NewNegative(MaxElems, TreeArgs(elems))
  \/ Evaluate
  \/ PrintExpr
  \/ PrintTreeCall

Spec == Init /\ [][Next]_vars

\* construction alone, with children lists of any shape
NextShared ==
  \/ NewLeaf(MaxShared)
  \/ NewInteger(MaxShared)
  \/ NewFloat(MaxShared)
  \/ NewNode(MaxShared, AnyArgs(elems))
  \/ NewAdd(MaxShared, AnyArgs(elems))
  \/ NewMultiply(MaxShared, AnyArgs(elems))
  \/ NewDivide(MaxShared, AnyArgs(elems))
  \/ NewNegative(MaxShared, AnyArgs(elems))

InitShared ==
  /\ elems = <<>>
  /\ op = "init"
  /\ nargs = 0
  /\ arg = 0
  /\ ret = NoRet
  /\ err = "none"
  /\ style = "none"
  /\ trace = <<>>
  /\ before = elems

SpecShared == InitShared /\ [][NextShared]_vars

-----------------------------------------------------------------------------
(* Vocabulary of the properties *)

\* the string without / with only the characters of S
Without(s, S) == SelectSeq(s, LAMBDA c : c \notin S)
Only(s, S) == SelectSeq(s, LAMBDA c : c \in S)

Parens == {"(", ")"}

\* the number of parentheses left open after s, starting from open; -1 as soon
\* as a ")" closes nothing
RECURSIVE OpenAfter(_, _, _)
OpenAfter(s, i, open) ==
  IF i > Len(s) THEN open
  ELSE IF s[i] = "(" THEN OpenAfter(s, i + 1, open + 1)
  ELSE IF s[i] = ")" THEN (IF open = 0 THEN 0 - 1 ELSE OpenAfter(s, i + 1, open - 1))
  ELSE OpenAfter(s, i + 1, open)

\* no prefix of s closes more than it opens, and s closes all it opens
Balanced(s) == OpenAfter(s, 1, 0) = 0

\* the elements of the tree below e, e included
RECURSIVE Subtree(_, _)
Subtree(h, e) == {e} \cup UNION {Subtree(h, h[e].children[i]) : i \in 1..Len(h[e].children)}

\* the concatenation of F(s[i], i) over the sequence s from i on
RECURSIVE Concat(_, _, _)
Concat(F(_, _), s, i) == IF i > Len(s) THEN <<>> ELSE F(s[i], i) \o Concat(F, s, i + 1)

\* the parentheses the parenthesization rule asks for, in the order they are
\* written when the tree under e is rendered with outer as the outermost
\* element: a pair around every node with several children other than outer
RECURSIVE ParensWanted(_, _, _)
ParensWanted(h, e, outer) ==
  LET wrap == Len(h[e].children) > 1 /\ e # outer
      inner(c, i) == ParensWanted(h, c, outer)
  IN  (IF wrap THEN <<"(">> ELSE <<>>)
        \o Concat(inner, h[e].children, 1)
        \o (IF wrap THEN <<")">> ELSE <<>>)

\* the operator token of a node kind
Token(kind) ==
  CASE kind = "Add"      -> <<" ", "+", " ">>
    [] kind = "Multiply" -> <<" ", "*", " ">>
    [] kind = "Divide"   -> <<" ", "/", " ">>
    [] kind = "Negative" -> <<"-">>

\* the infix form of the tree under e without its parentheses: the token of a
\* node between every two consecutive children, and before an only child
RECURSIVE InfixWanted(_, _)
InfixWanted(h, e) ==
  LET operand(c, i) ==
        (IF i > 1 \/ Len(h[e].children) = 1 THEN Token(h[e].kind) ELSE <<>>)
          \o InfixWanted(h, c)
  IN  IF IsExpressionLeaf(h, e) THEN PyStr(h[e].result)
      ELSE Concat(operand, h[e].children, 1)

\* every node under e has several children or is a Negative with one
SeveralOrNegative(h, e) ==
  \A n \in Subtree(h, e) :
    IsExpressionNode(h, n) =>
      \/ Len(h[n].children) >= 2
      \/ h[n].kind = "Negative" /\ Len(h[n].children) = 1

\* the last call was PrintExpression().traverse on a root and it returned
Printed == op = "PrintExpression" /\ err = "none"
\* the last call was EvaluateExpression().traverse on a root and it returned
Evaluated == op = "EvaluateExpression" /\ err = "none"

\* the tree under e as a term: the class, the value of a leaf, the children
RECURSIVE Shape(_, _)
Shape(h, e) ==
  LET child(c, i) == <<Shape(h, c)>>
  IN  [k |-> h[e].kind,
       v |-> IF h[e].children = <<>> THEN h[e].result ELSE None,
       c |-> Concat(child, h[e].children, 1)]

T_Integer(n) == [k |-> "Integer", v |-> PyInt(n), c |-> <<>>]
T_Float(n) == [k |-> "Float", v |-> PyFloat(n, 1), c |-> <<>>]
T_Node(kind, children) == [k |-> kind, v |-> None, c |-> children]

\* r is exactly the quotient a / b
IsQuotient(r, a, b) == r.n * (a.d * b.n) = r.d * (a.n * b.d)

\* r is the largest whole number not above the quotient a / b
IsFloorOfQuotient(r, a, b) ==
  LET n == IF a.d * b.n > 0 THEN a.n * b.d ELSE 0 - (a.n * b.d)
      d == Abs(a.d * b.n)
  IN  r.d = 1 /\ r.n * d <= n /\ n < (r.n + 1) * d

\* the Divide nodes that have been given a result
DividesDone == {e \in Ids(elems) : elems[e].kind = "Divide" /\ elems[e].result # None}
Dividend(e) == elems[e].children[1]
Divisor(e) == elems[e].children[2]

\* one of the two operand elements of the Divide e is itself a Float leaf
FloatOperand(e) ==
  elems[Dividend(e)].kind = "Float" \/ elems[Divisor(e)].kind = "Float"

\* the value of an operand of the Divide e originates from a Float leaf
FloatOrigin(e) ==
  \E l \in Subtree(elems, Dividend(e)) \cup Subtree(elems, Divisor(e)) :
    elems[l].kind = "Float"

\* every leaf under e is an Integer and every node an expression node
IntegerLeaves(h, e) ==
  \A n \in Subtree(h, e) :
    /\ IsExpression(h, n)
    /\ IsExpressionLeaf(h, n) => h[n].kind = "Integer"

\* sum and product of the numerators of the results of the children from i on
RECURSIVE SumFrom(_, _, _)
SumFrom(h, cs, i) == IF i > Len(cs) THEN 0 ELSE h[cs[i]].result.n + SumFrom(h, cs, i + 1)
RECURSIVE ProductFrom(_, _, _)
ProductFrom(h, cs, i) ==
  IF i > Len(cs) THEN 1 ELSE h[cs[i]].result.n * ProductFrom(h, cs, i + 1)

-----------------------------------------------------------------------------
(* Claims about PrintExpression *)

\* C1: the string PrintExpression.traverse returns for an expression tree
\* rendered from its root has no unmatched parenthesis: as many "(" as ")",
\* and no prefix with more ")" than "(".
C1_NoUnmatchedParentheses == Printed => Balanced(ret.str)

\* C2: in the string returned for a root, a node contributes a "(" before its
\* first token and a ")" after the last token of its subtree if and only if it
\* has more than one child and is not the outermost element.
C2_ParenthesesIffSeveralChildrenAndInner ==
  Printed => Only(ret.str, Parens) = ParensWanted(elems, arg, arg)

\* C3: a node with n >= 2 children has its operator token between every two
\* consecutive rendered children (n - 1 times), and a Negative with one child
\* has "-" once, immediately before the child.
C3_TokenBetweenConsecutiveChildren ==
  (Printed /\ SeveralOrNegative(elems, arg))
    => Without(ret.str, Parens) = InfixWanted(elems, arg)

-----------------------------------------------------------------------------
(* Claims about EvaluateExpression *)

\* C4: a Divide is evaluated with true division exactly when its dividend
\* element or its divisor element is itself a Float leaf, and with floor
\* division otherwise, whatever the numeric kind of the operands' results;
\* evaluate(Divide(Integer(5), Integer(2))) = 2 and
\* evaluate(Divide(Float(5.0), Integer(2))) = 2.5.
C4_TrueDivisionIffFloatLeafOperand ==
  /\ \A e \in DividesDone :
       LET a == elems[Dividend(e)].result
           b == elems[Divisor(e)].result
       IN  elems[e].result =
             IF FloatOperand(e) THEN PyTrueDiv(a, b) ELSE PyFloorDiv(a, b)
  /\ Evaluated =>
       \A e \in Subtree(elems, arg) : elems[e].kind = "Divide" => e \in DividesDone
  /\ (Evaluated /\ Shape(elems, arg) = T_Node("Divide", <<T_Integer(5), T_Integer(2)>>))
       => ret.num = PyInt(2)
  /\ (Evaluated /\ Shape(elems, arg) = T_Node("Divide", <<T_Float(5), T_Integer(2)>>))
       => ret.num = PyFloat(5, 2)

\* C4 happens: both divisions have been applied and each shows in its result,
\* a true division with a Float leaf operand whose result is no whole number
\* and a floor division whose result is not the quotient
C4_BothDivisionsApplied ==
  \E e, f \in DividesDone :
    /\ FloatOperand(e) /\ elems[e].result.d # 1
    /\ ~FloatOperand(f)
    /\ ~IsQuotient(elems[f].result, elems[Dividend(f)].result, elems[Divisor(f)].result)

\* C5 as stated: a Divide's result is the true quotient if and only if the
\* value of one of its operands originates from a Float leaf, the operand
\* being that leaf or a subtree containing it; otherwise it is the floor.
C5_TrueDivisionIffFloatOrigin ==
  \A e \in DividesDone :
    LET a == elems[Dividend(e)].result
        b == elems[Divisor(e)].result
    IN  IF FloatOrigin(e)
          THEN elems[e].result.t = "float" /\ IsQuotient(elems[e].result, a, b)
          ELSE IsFloorOfQuotient(elems[e].result, a, b)

\* C5 as amended: a Divide's result is the true quotient, a float, if and only
\* if one of its two operand elements is itself a Float leaf; otherwise it is
\* the floor of the quotient, also when an operand is a subtree whose value
\* originates from a Float leaf, and it is then a float exactly when an
\* operand's value is.
C5_TrueDivisionIffFloatLeaf ==
  \A e \in DividesDone :
    LET a == elems[Dividend(e)].result
        b == elems[Divisor(e)].result
    IN  IF FloatOperand(e)
          THEN elems[e].result.t = "float" /\ IsQuotient(elems[e].result, a, b)
          ELSE /\ IsFloorOfQuotient(elems[e].result, a, b)
               /\ elems[e].result.t = Wider(a, b)

\* C5 happens: a Divide whose operand's value originates from a Float leaf
\* below an internal node has been given the floor, which is not the quotient
C5_FloorDespiteFloatOrigin ==
  \E e \in DividesDone :
    /\ FloatOrigin(e) /\ ~FloatOperand(e)
    /\ elems[e].result.t = "float"
    /\ ~IsQuotient(elems[e].result, elems[Dividend(e)].result, elems[Divisor(e)].result)

\* the last expression of the docstring of EvaluateExpression
Example5 ==
  T_Node("Add", <<T_Integer(2),
                  T_Node("Divide", <<T_Node("Multiply",
                                            <<T_Float(5),
                                              T_Node("Negative", <<T_Integer(3)>>)>>),
                                     T_Float(10)>>)>>)

\* C6 as stated: evaluate(Add(Integer(2), Divide(Multiply(Float(5.0),
\* Negative(Integer(3))), Float(10.0)))) returns -0.5.
C6_ExampleIsMinusHalf ==
  (Evaluated /\ Shape(elems, arg) = Example5) => ret.num = PyFloat(0 - 1, 2)

\* C6 as amended: evaluate(Add(Integer(2), Divide(Multiply(Float(5.0),
\* Negative(Integer(3))), Float(10.0)))) returns 0.5, which is
\* 2 + ((5.0 * -3) / 10.0).
C6_ExampleIsHalf ==
  (Evaluated /\ Shape(elems, arg) = Example5) => ret.num = PyFloat(1, 2)

\* C6 happens: the example has been evaluated
C6_ExampleEvaluated == Evaluated /\ Shape(elems, arg) = Example5

\* C7: in a tree with Integer leaves evaluate sets and returns, for an Add the
\* sum of its children's results, for a Multiply their product, for a Negative
\* 0 minus its child's result, an integer every time; evaluate(Integer(v))
\* returns v and evaluate(Negative(Integer(23))) returns -23.
C7_IntegerSumProductNegation ==
  /\ \A e \in Ids(elems) :
       (IsExpressionNode(elems, e) /\ elems[e].result # None /\ IntegerLeaves(elems, e))
         => /\ elems[e].result.t = "int" /\ elems[e].result.d = 1
            /\ elems[e].kind = "Add"
                 => elems[e].result.n = SumFrom(elems, elems[e].children, 1)
            /\ elems[e].kind = "Multiply"
                 => elems[e].result.n = ProductFrom(elems, elems[e].children, 1)
            /\ elems[e].kind = "Negative"
                 => elems[e].result.n = 0 - elems[elems[e].children[1]].result.n
  /\ Evaluated =>
       /\ ret.num = elems[arg].result
       /\ \A e \in Subtree(elems, arg) : elems[e].result # None
  /\ \A v \in {0, 2, 42} :
       (Evaluated /\ Shape(elems, arg) = T_Integer(v)) => ret.num = PyInt(v)
  /\ (Evaluated /\ Shape(elems, arg) = T_Node("Negative", <<T_Integer(23)>>))
       => ret.num = PyInt(0 - 23)

\* C7 happens: an Add or Multiply of several children, one of them a Negative,
\* has been evaluated over Integer leaves to a number other than 0
C7_IntegerTreeEvaluated ==
  /\ Evaluated
  /\ elems[arg].kind \in {"Add", "Multiply"}
  /\ Len(elems[arg].children) >= 2
  /\ \E i \in 1..Len(elems[arg].children) : elems[elems[arg].children[i]].kind = "Negative"
  /\ IntegerLeaves(elems, arg)
  /\ ret.num.n # 0

-----------------------------------------------------------------------------
(* Claims about construction *)

NodeClasses == {"Node", "Add", "Multiply", "Divide", "Negative"}

\* the last call was a constructor of a node class and it raised TypeError
\* without making an object
Refused == err = "TypeError" /\ arg = 0

\* C8: constructing a Node, Add or Multiply with no child fails, constructing
\* a Divide with a number of children other than 2 fails, constructing a
\* Negative with 2 or more children fails; so every Node that exists has at
\* least one child and every Divide exactly two.
C8_ConstructionEnforcesArity ==
  /\ (op \in {"Node", "Add", "Multiply"} /\ nargs = 0) => Refused
  /\ (op = "Divide" /\ nargs # 2) => Refused
  /\ (op = "Negative" /\ nargs >= 2) => Refused
  /\ (op \in NodeClasses /\ err = "none")
       => arg = Len(elems) /\ elems[arg].kind = op /\ Len(elems[arg].children) = nargs
  /\ \A e \in Ids(elems) :
       /\ elems[e].kind \in NodeKinds => Len(elems[e].children) >= 1
       /\ elems[e].kind = "Divide" => Len(elems[e].children) = 2

\* C8 happens: a Divide has been refused three children
C8_DivideOfThreeRefused == op = "Divide" /\ nargs = 3 /\ Refused

\* C9 as stated: constructing a Negative succeeds with no child and with one
\* child, and fails only with more than one.
C9_NegativeAcceptsNoneOrOne == op = "Negative" => (err = "none" <=> nargs <= 1)

\* C9 as amended: a Negative accepts exactly one child: constructing it with
\* one child succeeds, with more than one it fails in Negative.__init__ and
\* with none it fails in Node.__init__, a TypeError both times.
C9_NegativeAcceptsExactlyOne ==
  /\ op = "Negative" => (err = "none" <=> nargs = 1)
  /\ (op = "Negative" /\ nargs # 1) => Refused
  /\ \A e \in Ids(elems) : elems[e].kind = "Negative" => Len(elems[e].children) = 1

\* C9 happens: a Negative without a child has been refused
C9_NegativeOfNoneRefused == op = "Negative" /\ nargs = 0 /\ Refused

\* C10: whatever is constructed, also when an element that has a parent is
\* handed to another constructor, a parent reference that is set never
\* changes, and every child of every Node has that Node as its parent.
C10_ParentSetOnce ==
  [][/\ \A e \in Ids(elems) :
          elems[e].parent # 0 => elems'[e].parent = elems[e].parent
     /\ \A n \in Ids(elems') :
          \A c \in Range(elems'[n].children) : elems'[c].parent = n]_vars

-----------------------------------------------------------------------------
(* C11..C19: vocabulary *)

\* the last call was EvaluateExpression().traverse, whatever its outcome
EvaluateCalled == op = "EvaluateExpression"

\* how often the last evaluation assigned the result of e
Assignments(e) == Cardinality({i \in 1..Len(trace) : trace[i] = Assigned(e)})

\* the result of e is what it was when the last call was made
SameResult(e) == elems[e].result = before[e].result

\* C11 as stated: across evaluate calls the result of an internal expression
\* node is written once: an evaluation does not assign a result that was set
\* when it was called, and the result stays what it was; the result of an
\* Integer or Float is never assigned and stays what the constructor stored.
C11_ResultWrittenOnce ==
  EvaluateCalled =>
    \A e \in Ids(elems) :
      /\ IsExpressionLeaf(elems, e) => Assignments(e) = 0 /\ SameResult(e)
      /\ (IsExpressionNode(elems, e) /\ before[e].result # None)
           => Assignments(e) = 0 /\ SameResult(e)

\* C11 as amended: the value of a result changes once at most, from unset to
\* set, and only by an assignment of the evaluator; a result that was set
\* when evaluate was called keeps its value, though every evaluation that
\* returns assigns the result of every internal node of the tree once more;
\* the result of an Integer or Float is never assigned and keeps its value.
C11_ResultValueSetOnce ==
  EvaluateCalled =>
    /\ \A e \in Ids(elems) :
         /\ IsExpressionLeaf(elems, e) => Assignments(e) = 0 /\ SameResult(e)
         /\ before[e].result # None => SameResult(e)
         /\ ~SameResult(e) => Assignments(e) = 1 /\ IsExpressionNode(elems, e)
         /\ Assignments(e) <= 1
         /\ Assignments(e) = 1 => elems[e].result # None
    /\ err = "none" =>
         \A e \in Subtree(elems, arg) :
           IsExpressionNode(elems, e) => Assignments(e) = 1

\* C11 happens: a tree that had been evaluated has been evaluated again, and
\* the result of its root has been assigned again
C11_EvaluatedAgain ==
  /\ Evaluated /\ IsExpressionNode(elems, arg)
  /\ before[arg].result # None
  /\ Assignments(arg) = 1


\* the root of another tree that is a copy of the tree of e: the same
\* classes, the same values and the same children lists
Copies(h, e) == {r \in Roots(h) \ {e} : Shape(h, r) = Shape(h, e)}

\* C12: evaluate is deterministic and idempotent: evaluating a fresh copy of
\* the tree just evaluated ends as that evaluation ended, with the same value
\* returned; evaluating an evaluated tree again returns the value of the
\* first evaluation and leaves every result as it was.
C12_DeterministicAndIdempotent ==
  (EvaluateCalled /\ arg # 0) =>
    /\ before[arg].result = None =>
         \A r \in Copies(elems, arg) :
           elems[r].result = None =>
             LET copy == Eval_traverse(elems, r)
             IN  copy.err = err /\ copy.ret = ret
    /\ (IsExpression(before, arg) /\ before[arg].result # None) =>
         err = "none" /\ ret = RetNum(before[arg].result) /\ elems = before
    /\ Evaluated =>
         LET again == Eval_traverse(elems, arg)
         IN  again.err = "none" /\ again.ret = ret /\ again.h = elems

\* C12 happens: of two fresh copies of a tree one has been evaluated, twice
C12_CopyEvaluatedTwice ==
  /\ Evaluated /\ IsExpressionNode(elems, arg)
  /\ before[arg].result # None
  /\ \E r \in Copies(elems, arg) : elems[r].result = None


\* the elements of the tree under e, every element before its children and
\* the children in their order
RECURSIVE PreOrder(_, _)
PreOrder(h, e) ==
  LET below(c, i) == PreOrder(h, c)
  IN  <<e>> \o Concat(below, h[e].children, 1)

\* the lines of s from character i on
RECURSIVE LinesFrom(_, _)
LinesFrom(s, i) ==
  LET ends == {j \in i..Len(s) : s[j] = "\n"}
      end == CHOOSE j \in ends : \A k \in ends : j <= k
  IN  IF ends = {} THEN <<SubSeq(s, i, Len(s))>>
      ELSE <<SubSeq(s, i, end - 1)>> \o LinesFrom(s, end + 1)

\* the lines of a string
Lines(s) == LinesFrom(s, 1)

\* the last n characters of s, and s without them
Tail_(s, n) == SubSeq(s, Len(s) - n + 1, Len(s))
Front(s, n) == SubSeq(s, 1, Len(s) - n)
EndsWith(s, t) == Len(t) <= Len(s) /\ Tail_(s, Len(t)) = t

\* the name an element is shown with: name(value) for an Integer or a Float
Label(h, e) ==
  IF h[e].kind \in {"Integer", "Float"}
    THEN h[e].name \o <<"(">> \o PyStr(h[e].result) \o <<")">>
  ELSE h[e].name

\* e is the last child of its parent
LastSibling(h, e) ==
  LET siblings == h[h[e].parent].children
  IN  siblings[Len(siblings)] = e

\* the connector of the table: by parent, by class and by place among the
\* siblings
Connector(h, e) ==
  LET leaf == h[e].kind \in {"Leaf", "Integer", "Float"}
  IN  IF h[e].parent = 0
        THEN (IF leaf THEN PREFIX_ROOT_LONLEY ELSE PREFIX_ROOT)
      ELSE IF leaf
        THEN (IF LastSibling(h, e) THEN PREFIX_LAST_SIBLING_NO_CHILDREN
              ELSE PREFIX_MIDDLE_SIBLING_NO_CHILDREN)
      ELSE (IF LastSibling(h, e) THEN PREFIX_LAST_SIBILING_W_CHILD
            ELSE PREFIX_MIDDLE_SIBLING_W_CHILD)

\* the last call was PrintTree(TREE).traverse on a root and it returned
TreePrinted == op = "PrintTree" /\ style = TREE /\ err = "none"

\* C13: in the TREE style PrintTree.traverse returns one line per element of
\* the tree, in pre-order, and the line of an element ends with its connector
\* and its name: the lone-leaf or the root connector for the element without
\* a parent, else the last / middle leaf connector for a Leaf and the last /
\* middle node connector for a Node, by its place among its siblings.
C13_OneLinePerElementWithConnector ==
  TreePrinted =>
    LET order == PreOrder(elems, arg)
        lines == Lines(ret.str)
    IN  /\ Len(lines) = Len(order)
        /\ lines[1] = Connector(elems, arg) \o Label(elems, arg)
        /\ \A k \in 1..Len(order) :
             EndsWith(lines[k],
                      Connector(elems, order[k]) \o Label(elems, order[k]))

\* C13 happens: a tree with a middle and a last leaf and a middle and a last
\* node has been printed in the TREE style
C13_AllConnectorsPrinted ==
  /\ TreePrinted
  /\ \A c \in {PREFIX_ROOT, PREFIX_LAST_SIBLING_NO_CHILDREN,
               PREFIX_MIDDLE_SIBLING_NO_CHILDREN, PREFIX_LAST_SIBILING_W_CHILD,
               PREFIX_MIDDLE_SIBLING_W_CHILD} :
       \E e \in Subtree(elems, arg) : Connector(elems, e) = c


\* the extension an ancestor a contributes to the lines of its descendants
Extension(h, a) ==
  IF h[a].parent = 0 THEN <<>>
  ELSE IF LastSibling(h, a) THEN <<" ", " ">>
  ELSE PREFIX_VERTICAL_CONTINUATION

\* the extensions of the proper ancestors of e, from the root downwards
RECURSIVE Lead(_, _)
Lead(h, e) ==
  IF h[e].parent = 0 THEN <<>>
  ELSE Lead(h, h[e].parent) \o Extension(h, h[e].parent)

\* the proper ancestors of e
RECURSIVE Ancestors(_, _)
Ancestors(h, e) ==
  IF h[e].parent = 0 THEN {} ELSE {h[e].parent} \cup Ancestors(h, h[e].parent)

\* C14: in the TREE style the text before the connector on the line of an
\* element is the concatenation, from the root downwards, of one extension
\* per proper ancestor: nothing for the root, two spaces for an ancestor that
\* is the last of its siblings, the vertical continuation for any other.
C14_LeadIsExtensionPerAncestor ==
  TreePrinted =>
    LET order == PreOrder(elems, arg)
        lines == Lines(ret.str)
    IN  \A k \in 1..Len(order) :
          LET e == order[k]
              shown == Len(Connector(elems, e)) + Len(Label(elems, e))
          IN  /\ k <= Len(lines)
              /\ shown <= Len(lines[k])
              /\ Front(lines[k], shown) = Lead(elems, e)

\* C14 happens: an element below a middle ancestor and an element below a
\* last ancestor that is not the root have been printed in the TREE style
C14_BothExtensionsPrinted ==
  /\ TreePrinted
  /\ \E e \in Subtree(elems, arg) :
       \E a \in Ancestors(elems, e) :
         elems[a].parent # 0 /\ LastSibling(elems, a)
  /\ \E e \in Subtree(elems, arg) :
       \E a \in Ancestors(elems, e) :
         elems[a].parent # 0 /\ ~LastSibling(elems, a)


\* the number of proper ancestors of e
Depth(h, e) == Cardinality(Ancestors(h, e))

\* two spaces per level of depth
Indentation(depth) == [i \in 1..(2 * depth) |-> " "]

\* the fixed prefix of a style before every name
StylePrefix(s) == IF s = BULLET THEN <<"*", " ">> ELSE <<>>

\* the other of the two styles INDENT and BULLET
OtherStyle(s) == IF s = BULLET THEN INDENT ELSE BULLET

\* line by line, what the INDENT or BULLET style s shows of the tree under e
Outline(h, e, s) ==
  LET order == PreOrder(h, e)
  IN  [k \in 1..Len(order) |->
         Indentation(Depth(h, order[k])) \o StylePrefix(s) \o Label(h, order[k])]

\* the last call was PrintTree(INDENT or BULLET).traverse on a root and it
\* returned
OutlinePrinted == op = "PrintTree" /\ style \in {INDENT, BULLET} /\ err = "none"

\* C15: the INDENT and the BULLET rendering of a tree have one line per
\* element, in pre-order; line k is two spaces per level of depth of the k-th
\* element, then the prefix of the style (nothing for INDENT, "* " for
\* BULLET), then the name; so the two differ only by that prefix.
C15_IndentAndBulletDifferByPrefix ==
  OutlinePrinted =>
    LET other == PrintTree_traverse(elems, arg, OtherStyle(style))
    IN  /\ Lines(ret.str) = Outline(elems, arg, style)
        /\ other.err = "none"
        /\ Lines(other.s) = Outline(elems, arg, OtherStyle(style))
        /\ Len(Lines(other.s)) = Len(Lines(ret.str))
        /\ Len(Lines(ret.str)) = Cardinality(Subtree(elems, arg))

\* C15 happens: a tree with an element of depth two has been printed in the
\* BULLET style
C15_NestedBulletsPrinted ==
  /\ OutlinePrinted /\ style = BULLET
  /\ \E e \in Subtree(elems, arg) : Depth(elems, e) >= 2


\* the fields of e other than result are what they were when the last call
\* was made
SameTopology(e) ==
  /\ elems[e].kind = before[e].kind
  /\ elems[e].name = before[e].name
  /\ elems[e].parent = before[e].parent
  /\ elems[e].children = before[e].children

\* C16: PrintTree.traverse and PrintExpression.traverse leave the name, the
\* parent, the children and the result of every element as they were;
\* EvaluateExpression.traverse changes nothing but the result of internal
\* expression nodes.
C16_VisitorsKeepTheTree ==
  /\ Shown => elems = before
  /\ EvaluateCalled =>
       /\ Len(elems) = Len(before)
       /\ \A e \in Ids(elems) :
            /\ SameTopology(e)
            /\ ~IsExpressionNode(elems, e) => SameResult(e)

\* C16 happens: a tree whose results the evaluator had set has been printed
C16_EvaluatedTreePrinted ==
  /\ Shown /\ err = "none"
  /\ IsExpressionNode(elems, arg) /\ elems[arg].result # None
  /\ \E e \in Subtree(elems, arg) : e # arg /\ IsExpressionNode(elems, e)


\* the elements of the tree under e, every element after its children and
\* the children in their order
RECURSIVE PostOrder(_, _)
PostOrder(h, e) ==
  LET below(c, i) == PostOrder(h, c)
  IN  Concat(below, h[e].children, 1) \o <<e>>

\* the elements the last evaluation called accept on, in the order of the
\* calls
Calls ==
  LET accepts == SelectSeq(trace, LAMBDA x : x.ev = "accept")
  IN  [i \in 1..Len(accepts) |-> accepts[i].e]

\* s is the beginning of t
IsPrefix(s, t) == Len(s) <= Len(t) /\ SubSeq(t, 1, Len(s)) = s

\* C17: evaluate walks the tree in post-order: the rules run on the elements
\* in post-order, as far as the evaluation gets and on all of them when it
\* returns; a result is assigned by the rule that has just been called; and
\* when the rule of a node runs every child of the node has a set result.
C17_PostOrderWalk ==
  (EvaluateCalled /\ arg # 0) =>
    /\ IsPrefix(Calls, PostOrder(elems, arg))
    /\ err = "none" => Calls = PostOrder(elems, arg)
    /\ \A i \in 1..Len(trace) :
         /\ trace[i].ev = "result" => i > 1 /\ trace[i - 1] = Accepted(trace[i].e)
         /\ (trace[i].ev = "accept" /\ IsExpressionNode(elems, trace[i].e)) =>
              \A c \in Range(elems[trace[i].e].children) :
                /\ elems[c].result # None
                /\ \E j \in 1..(i - 1) : trace[j] = Accepted(c)

\* C17 happens: a tree has been evaluated in which a node of several
\* children has a node among them that is not the last
C17_NestedTreeWalked ==
  /\ Evaluated
  /\ \E n \in Subtree(elems, arg) :
       \E i \in 1..(Len(elems[n].children) - 1) :
         IsExpressionNode(elems, elems[n].children[i])


\* the tree under e is made of Integer, Float, Add, Multiply, Divide and
\* Negative elements only
WellFormed(h, e) == \A x \in Subtree(h, e) : IsExpression(h, x)

\* C18: on a tree made of expression elements only evaluate never fails with
\* the ValueError of traverse (the result of the root still None) nor with
\* the ValueError of a rule (the result of a child None): it returns, or a
\* Divide fails on a divisor that is zero.
C18_NoValueErrorOnWellFormedTree ==
  (EvaluateCalled /\ arg # 0 /\ WellFormed(elems, arg)) =>
    /\ err # "ValueError"
    /\ err \in {"none", "ZeroDivisionError"}
    /\ err = "none" => \A e \in Subtree(elems, arg) : elems[e].result # None

\* C18 happens: a tree of expression elements with a node below a node has
\* been evaluated for the first time
C18_WellFormedTreeEvaluated ==
  /\ Evaluated /\ WellFormed(elems, arg)
  /\ before[arg].result = None
  /\ \E n \in Subtree(elems, arg) : n # arg /\ before[n].result = None


\* the last evaluation raised
EvaluateFailed == EvaluateCalled /\ err # "none"

\* the rule of an element was called by the last evaluation and raised
RuleRaised ==
  /\ EvaluateFailed /\ trace # <<>>
  /\ trace[Len(trace)].ev = "accept"
  /\ IsExpressionNode(elems, trace[Len(trace)].e)

\* the first element that is not an expression, in the order _evaluate is
\* entered
FirstForeign(h, e) ==
  LET order == PreOrder(h, e)
      first == CHOOSE k \in 1..Len(order) :
                 /\ ~IsExpression(h, order[k])
                 /\ \A j \in 1..(k - 1) : IsExpression(h, order[j])
  IN  order[first]

\* the element at which the failure of the last evaluation was detected: the
\* node whose rule raised, else the element that is not an expression
FailedAt ==
  IF RuleRaised THEN trace[Len(trace)].e ELSE FirstForeign(elems, arg)

\* C19: evaluate fails when it is handed None, when the root or an element
\* it reaches is not an expression, and when the divisor of a Divide is zero;
\* when it fails no value is returned, and the result of the element at which
\* the failure was detected and of every ancestor of it is what it was before
\* the call.
C19_FailureLeavesPathUntouched ==
  /\ (EvaluateCalled /\ arg = 0) => err = "TypeError"
  /\ (EvaluateCalled /\ arg # 0 /\ ~WellFormed(elems, arg)) => EvaluateFailed
  /\ EvaluateFailed =>
       /\ ret = NoRet
       /\ err \in {"TypeError", "ZeroDivisionError"}
       /\ arg = 0 => elems = before
       /\ arg # 0 =>
            /\ RuleRaised <=> err = "ZeroDivisionError"
            /\ RuleRaised =>
                 /\ elems[FailedAt].kind = "Divide"
                 /\ elems[elems[FailedAt].children[2]].result.n = 0
            /\ ~RuleRaised => ~WellFormed(elems, arg)
            /\ FailedAt \in Subtree(elems, arg)
            /\ \A e \in {FailedAt} \cup Ancestors(elems, FailedAt) :
                 /\ SameResult(e)
                 /\ Assignments(e) = 0

\* C19 happens: the first evaluation of a tree has failed at a Divide below
\* the root, after it had set the result of a node
C19_DivisionByZeroBelowRoot ==
  /\ EvaluateFailed /\ arg # 0 /\ RuleRaised
  /\ FailedAt # arg
  /\ \A e \in {FailedAt} \cup Ancestors(elems, FailedAt) : elems[e].result = None

====
